---------------------------- MODULE Spec2Model ----------------------------
(***************************************************************************)
(* A model of the bcparse front end (ajmd17/pie): the shell in main.cpp    *)
(* (handleArgs, CompilerHelper::buildSourceFile, main) and the recursive   *)
(* descent parser of parser.cpp.  The parser is modelled one loop          *)
(* iteration per step, so that termination and error recovery are          *)
(* properties of the state machine.  The token stream, the error list,     *)
(* the symbol table ("bound globals"), the analyzer and the compiler are   *)
(* not part of the sources at hand and are modelled from the               *)
(* specification.                                                          *)
(***************************************************************************)
EXTENDS Integers, Sequences, FiniteSets, TLC

(***************************************************************************)
(* Bounds of the model.                                                    *)
(***************************************************************************)
MaxLen == 4

(***************************************************************************)
(* Tokens.  A token is a class tag, a text value and, for an interpolation *)
(* span, the words of its raw contents.  A token's source location is its  *)
(* index in the stream it belongs to (locations grow with the index).      *)
(***************************************************************************)
Tok(c, v) == [cls |-> c, val |-> v, body |-> <<>>]

Interp(words) == [cls |-> "TK_INTERPOLATION", val |-> "", body |-> words]

EMPTY == Tok("TK_EMPTY", "")

NEWLINE == Tok("TK_NEWLINE", "newline")

JumpMnemonics == {"jmp", "je", "jne", "jg", "jge"}

\* the tokens of the model's sources
Alphabet ==
  { Tok("TK_IDENT", "jmp"), Tok("TK_IDENT", "cmp"), Tok("TK_IDENT", "a"),
    Tok("TK_LABEL", "a"), NEWLINE, Tok("TK_DIRECTIVE", "macro"),
    Tok("TK_OPEN_BRACE", "{"), Tok("TK_CLOSE_BRACE", "}"),
    Tok("TK_OPEN_PARENTH", "("), Tok("TK_INTEGER", "1"),
    Interp(<<"a">>), Interp(<<"b", "a">>) }

\* the tokens of the longest sources: statements of labels and jumps
CoreAlphabet ==
  { Tok("TK_IDENT", "jmp"), Tok("TK_IDENT", "a"), Tok("TK_LABEL", "a"),
    NEWLINE, Tok("TK_DIRECTIVE", "macro"), Interp(<<"a">>) }

\* every source of fewer than MaxLen tokens, and the sources of MaxLen core
\* tokens
TokenSeqs ==
  UNION { [1..n -> Alphabet] : n \in 0..(MaxLen - 1) } \cup [1..MaxLen -> CoreAlphabet]

\* operand tokens: data locations (the text of a register or local token is
\* its index in decimal), the reserved classes, a string, what ends or names
\* an operand, and an interpolation span with nothing in it
OperandAlphabet ==
  { Tok("TK_REG", "1"), Tok("TK_LOCAL", "1"),
    Tok("TK_REG", "2147483648"), Tok("TK_LOCAL", "2147483648"),
    Tok("TK_FLOAT", "1.5"), Tok("TK_OPEN_BRACKET", "["), Tok("TK_STRING", "s"),
    Tok("TK_IDENT", "a"), NEWLINE, Interp(<<>>) }

\* a statement of operands alone, or a jump or compare and its operands
OperandSeqs ==
  LET operands == UNION { [1..n -> OperandAlphabet] : n \in 1..(MaxLen - 2) } IN
    operands \cup { <<Tok("TK_IDENT", h)>> \o s : h \in {"jmp", "cmp"}, s \in operands }

\* what follows a directive: arguments, braces, terminators
BraceAlphabet ==
  { Tok("TK_OPEN_BRACE", "{"), Tok("TK_CLOSE_BRACE", "}"), Tok("TK_IDENT", "a"), NEWLINE }

\* a directive and up to MaxLen + 1 tokens after it
DirectiveSeqs ==
  { <<Tok("TK_DIRECTIVE", "macro")>> \o s :
      s \in UNION { [1..n -> BraceAlphabet] : n \in 0..(MaxLen + 1) } }

\* the sources of the model
Sources == TokenSeqs \cup OperandSeqs \cup DirectiveSeqs

(***************************************************************************)
(* TokenStream (modelled from the specification, section 4.2).  The cursor *)
(* p is 1-based: p = Len(ts) + 1 is the end of the stream.                 *)
(***************************************************************************)
HasNext(ts, p) == p <= Len(ts)

Peek(ts, p) == IF p >= 1 /\ p <= Len(ts) THEN ts[p] ELSE EMPTY

StreamNext(ts, p) == IF p <= Len(ts) THEN p + 1 ELSE p

Rewind(p) == p - 1

(***************************************************************************)
(* Diagnostics.  ErrorList::addError appends; hasFatalErrors is "some      *)
(* diagnostic at error severity or above"; sortErrors orders by location.  *)
(***************************************************************************)
LEVEL_ERROR == 2

CompilerError(lvl, m, l, s) == [level |-> lvl, msg |-> m, loc |-> l, str |-> s]

AddError(errs, e) == Append(errs, e)

HasFatalErrors(errs) == \E i \in 1..Len(errs) : errs[i].level >= LEVEL_ERROR

RECURSIVE InsertByLoc(_, _)
InsertByLoc(sorted, e) ==
  IF sorted = <<>> THEN <<e>>
  ELSE IF Head(sorted).loc <= e.loc
       THEN <<Head(sorted)>> \o InsertByLoc(Tail(sorted), e)
       ELSE <<e>> \o sorted

RECURSIVE SortErrors(_)
SortErrors(errs) ==
  IF errs = <<>> THEN <<>>
  ELSE InsertByLoc(SortErrors(SubSeq(errs, 1, Len(errs) - 1)), errs[Len(errs)])

\* a line of text on a stream: location, severity, message, context (the
\* first two are 0 on a line that is no diagnostic)
PlainLine(text, context) == <<0, 0, text, context>>

\* one rendered line per diagnostic
WriteOutput(errs) ==
  [i \in 1..Len(errs) |-> <<errs[i].loc, errs[i].level, errs[i].msg, errs[i].str>>]

(***************************************************************************)
(* AST nodes, all of one shape.  sub holds the child expressions.          *)
(***************************************************************************)
Node(k, n, v, l, s, b) ==
  [kind |-> k, name |-> n, num |-> v, loc |-> l, sub |-> s, body |-> b]

NULL == Node("null", "", 0, 0, <<>>, <<>>)

AstIdentifier(n, l) == Node("identifier", n, 0, l, <<>>, <<>>)

AstLabel(n, l) == Node("label", n, 0, l, <<>>, <<>>)

AstLabelDecl(n, lbl, l) == Node("label_decl", n, 0, l, <<lbl>>, <<>>)

AstJmpStatement(e, mode, l) == Node("jmp", mode, 0, l, <<e>>, <<>>)

AstCmpStatement(left, right, l) == Node("cmp", "cmp", 0, l, <<left, right>>, <<>>)

AstDirective(n, args, b, l) == Node("directive", n, 0, l, args, b)

AstIntegerLiteral(v, l) == Node("integer", "", v, l, <<>>, <<>>)

AstStringLiteral(v, l) == Node("string", v, 0, l, <<>>, <<>>)

\* ObjLoc::DataStoreLocation
NullDataStore == 0
StaticDataStore == 1
LocalDataStore == 2
RegisterDataStore == 3

AstDataLocation(v, store, l) == Node("data_location", "", v, l, <<>>, <<store>>)

\* hoisted statement kinds (specification, section 3 and glossary)
IsHoisted(stmt) == stmt.kind \in {"directive", "label_decl"}

(***************************************************************************)
(* Bound globals: a function from the bound names to their expressions.    *)
(* The top-level unit has no parent table.                                 *)
(***************************************************************************)
NoGlobals == [n \in {} |-> NULL]

BoundGlobalsSet(g, n, v) ==
  [x \in (DOMAIN g) \cup {n} |-> IF x = n THEN v ELSE g[x]]

BoundGlobalsGet(g, n) == IF n \in DOMAIN g THEN g[n] ELSE NULL

(***************************************************************************)
(* Parser::match, Parser::expect, Parser::currentLocation.                 *)
(***************************************************************************)
\* mutant of Match: a matching token is never read past
Match_NeverReads(ts, p, cls, read) ==
  LET peek == Peek(ts, p) IN
    IF peek # EMPTY /\ peek.cls = cls
    THEN [tok |-> peek, pos |-> p]
    ELSE [tok |-> EMPTY, pos |-> p]

Match(ts, p, cls, read) ==
  LET peek == Peek(ts, p) IN
    IF peek # EMPTY /\ peek.cls = cls
    THEN [tok |-> peek, pos |-> IF read /\ HasNext(ts, p) THEN StreamNext(ts, p) ELSE p]
    ELSE [tok |-> EMPTY, pos |-> p]

CurrentLocation(ts, p) ==
  IF Len(ts) # 0 /\ ~HasNext(ts, p) THEN Len(ts)
  ELSE IF HasNext(ts, p) THEN p ELSE 0

\* mutant of Expect: a failing call reads past the token it did not expect
Expect_SkipsOnFailure(ts, p, errs, cls, read) ==
  LET m == Match(ts, p, cls, read) IN
    IF m.tok = EMPTY
    THEN [tok |-> EMPTY, pos |-> StreamNext(ts, p),
          errors |-> AddError(errs,
            IF cls = "TK_IDENT"
            THEN CompilerError(LEVEL_ERROR, "Msg_expected_identifier",
                               CurrentLocation(ts, p), "")
            ELSE CompilerError(LEVEL_ERROR, "Msg_expected_token",
                               CurrentLocation(ts, p), cls))]
    ELSE [tok |-> m.tok, pos |-> m.pos, errors |-> errs]

Expect(ts, p, errs, cls, read) ==
  LET m == Match(ts, p, cls, read) IN
    IF m.tok = EMPTY
    THEN [tok |-> EMPTY, pos |-> m.pos,
          errors |-> AddError(errs,
            IF cls = "TK_IDENT"
            THEN CompilerError(LEVEL_ERROR, "Msg_expected_identifier",
                               CurrentLocation(ts, p), "")
            ELSE CompilerError(LEVEL_ERROR, "Msg_expected_token",
                               CurrentLocation(ts, p), cls))]
    ELSE [tok |-> m.tok, pos |-> m.pos, errors |-> errs]

(***************************************************************************)
(* The leaf parsers.  Each returns the node (NULL for nullptr), the cursor *)
(* and the error list after the call.                                      *)
(***************************************************************************)
\* the largest value of the int that parseRegister and parseLocal read into
INT_MAX == 2147483647

\* std::istringstream >> value on the token text, value an int: the number
\* written, INT_MAX when the number is too large for an int, 0 when no number
\* is read
ParseInt(v) ==
  CASE v = "0" -> 0 [] v = "1" -> 1 [] v = "2" -> 2 [] v = "3" -> 3
    [] v = "2147483647" -> INT_MAX
    [] v = "2147483648" -> INT_MAX
    [] OTHER -> 0

\* std::istringstream >> value, value an int64_t; the integer literals of the
\* model's sources are small
ParseInt64(v) ==
  CASE v = "0" -> 0 [] v = "1" -> 1 [] v = "2" -> 2 [] v = "3" -> 3 [] OTHER -> 0

ParseIdentifier(ts, p, errs) ==
  LET e == Expect(ts, p, errs, "TK_IDENT", TRUE) IN
    [res |-> IF e.tok # EMPTY THEN AstIdentifier(e.tok.val, p) ELSE NULL,
     pos |-> e.pos, errors |-> e.errors]

ParseIntegerLiteral(ts, p, errs) ==
  LET e == Expect(ts, p, errs, "TK_INTEGER", TRUE) IN
    [res |-> IF e.tok # EMPTY THEN AstIntegerLiteral(ParseInt64(e.tok.val), p) ELSE NULL,
     pos |-> e.pos, errors |-> e.errors]

ParseStringLiteral(ts, p, errs) ==
  LET e == Expect(ts, p, errs, "TK_STRING", TRUE) IN
    [res |-> IF e.tok # EMPTY THEN AstStringLiteral(e.tok.val, p) ELSE NULL,
     pos |-> e.pos, errors |-> e.errors]

ParseRegister(ts, p, errs) ==
  LET e == Expect(ts, p, errs, "TK_REG", TRUE) IN
    [res |-> IF e.tok # EMPTY
             THEN AstDataLocation(ParseInt(e.tok.val), RegisterDataStore, p)
             ELSE NULL,
     pos |-> e.pos, errors |-> e.errors]

ParseLocal(ts, p, errs) ==
  LET e == Expect(ts, p, errs, "TK_LOCAL", TRUE) IN
    [res |-> IF e.tok # EMPTY
             THEN AstDataLocation(ParseInt(e.tok.val), LocalDataStore, p)
             ELSE NULL,
     pos |-> e.pos, errors |-> e.errors]

\* mutant of ParseCommandIdentifier: the consumed token is not un-consumed
ParseCommandIdentifier_NoRewind(ts, p, errs) == ParseIdentifier(ts, p, errs)

\* Parser::parseCommand on an identifier that is no mnemonic, p the cursor
\* after the identifier was consumed: rewind, then parseIdentifier
ParseCommandIdentifier(ts, p, errs) == ParseIdentifier(ts, Rewind(p), errs)

\* Parser::parseTerm for every leading token but an interpolation span, whose
\* resolution loops and is the action Interpolate below.
ParseTerm(ts, p, errs) ==
  LET token == Peek(ts, p) IN
    IF token = EMPTY
    THEN [res |-> NULL, pos |-> StreamNext(ts, p),
          errors |-> AddError(errs, CompilerError(LEVEL_ERROR, "Msg_unexpected_eof",
                                                  CurrentLocation(ts, p), ""))]
    ELSE CASE token.cls = "TK_IDENT" -> ParseIdentifier(ts, p, errs)
           [] token.cls \in {"TK_OPEN_PARENTH", "TK_OPEN_BRACKET", "TK_FLOAT"} ->
                [res |-> NULL, pos |-> p, errors |-> errs]
           [] token.cls = "TK_INTEGER" -> ParseIntegerLiteral(ts, p, errs)
           [] token.cls = "TK_STRING" -> ParseStringLiteral(ts, p, errs)
           [] token.cls = "TK_REG" -> ParseRegister(ts, p, errs)
           [] token.cls = "TK_LOCAL" -> ParseLocal(ts, p, errs)
           [] OTHER ->
                [res |-> NULL, pos |-> StreamNext(ts, p),
                 errors |-> AddError(errs,
                   IF token.cls = "TK_NEWLINE"
                   THEN CompilerError(LEVEL_ERROR, "Msg_unexpected_eol", p, "")
                   ELSE CompilerError(LEVEL_ERROR, "Msg_unexpected_token", p, token.val))]

\* mutant of ParseLabel: a name that is already bound keeps its first label
ParseLabel_FirstWins(ts, p, errs, g) ==
  LET e == Expect(ts, p, errs, "TK_LABEL", TRUE) IN
    IF e.tok # EMPTY
    THEN [res |-> AstLabelDecl(e.tok.val, AstLabel(e.tok.val, p), p),
          pos |-> e.pos, errors |-> e.errors,
          globals |-> IF e.tok.val \in DOMAIN g THEN g
                      ELSE BoundGlobalsSet(g, e.tok.val, AstLabel(e.tok.val, p)),
          printed |-> <<PlainLine("add label", e.tok.val)>>]
    ELSE [res |-> NULL, pos |-> e.pos, errors |-> e.errors, globals |-> g,
          printed |-> <<>>]

\* Parser::parseLabel: prints the name and binds it to a fresh label expression
ParseLabel(ts, p, errs, g) ==
  LET e == Expect(ts, p, errs, "TK_LABEL", TRUE) IN
    IF e.tok # EMPTY
    THEN [res |-> AstLabelDecl(e.tok.val, AstLabel(e.tok.val, p), p),
          pos |-> e.pos, errors |-> e.errors,
          globals |-> BoundGlobalsSet(g, e.tok.val, AstLabel(e.tok.val, p)),
          printed |-> <<PlainLine("add label", e.tok.val)>>]
    ELSE [res |-> NULL, pos |-> e.pos, errors |-> e.errors, globals |-> g,
          printed |-> <<>>]

\* Lexer::analyze on the raw contents of an interpolation span (modelled from
\* the specification, section 4.1): one token per word
IsIntegerWord(w) == w \in {"0", "1", "2", "3"}

LexWord(w) == IF IsIntegerWord(w) THEN Tok("TK_INTEGER", w) ELSE Tok("TK_IDENT", w)

Lex(words) == [i \in 1..Len(words) |-> LexWord(words[i])]

\* Token::getRepr: the text of a token
GetRepr(tok) == tok.val

(***************************************************************************)
(* The state: the shell's inputs, the token stream and its cursor, the     *)
(* compilation unit (error list, bound globals), the locals of the parser  *)
(* functions in progress, and the shell's outputs.                         *)
(***************************************************************************)
VARIABLES
  pc,            \* the position in the program
  argc,          \* main's argument count
  fileOpen,      \* buildSourceFile(): in_file.is_open()
  tokens,        \* the token stream the lexer filled
  pos,           \* the cursor of the token stream
  errors,        \* unit->getErrorList()
  globals,       \* unit->getBoundGlobals()
  hoisted,       \* parse(): the hoisted statements
  otherStmts,    \* parse(): the other statements
  produced,      \* history: what parseStatement returned, in order
  ast,           \* the AST sequence (AstIterator)
  stmtRes,       \* parseStatement(): res
  ret,           \* which caller parseTerm returns to
  termRes,       \* parseTerm(): expr
  cmdTok,        \* parseCommand(): token
  cmpLeft,       \* parseCommand(): left
  dirTok,        \* parseDirective(): token
  dirArgs,       \* parseDirective(): arguments
  dirBody,       \* parseDirective(): body
  parenCounter,  \* parseDirective(): parenCounter
  itoks,         \* parseInterpolation(): tokenStream
  ipos,          \* parseInterpolation(): cursor of tokenStream
  ss,            \* buildSourceFile(): the rendered diagnostics
  compiled,      \* whether Compiler::compile was invoked
  chunk,         \* buildSourceFile(): the local BytecodeChunk
  out,           \* the BytecodeChunk *out handed in by handleArgs
  result,        \* the Result handed back to main
  stdout,        \* the lines written to standard output
  exitStatus,    \* the process exit status (-1: still running)
  objLoc,        \* the Object Location of each expression that has one assigned
  dataStorage,   \* the data storage allocator: the next free static slot
  buildPos,      \* Compiler::compile: the statement being emitted
  eosRes,        \* what the last call of expectEndOfStmt returned
  expCall        \* the last call of expect on its own: class, read, token returned

parserVars == <<pos, errors, globals, hoisted, otherStmts, produced, ast>>
stmtVars == <<stmtRes, ret, termRes, cmdTok, cmpLeft>>
dirVars == <<dirTok, dirArgs, dirBody, parenCounter>>
interpVars == <<itoks, ipos>>
shellVars == <<ss, compiled, chunk, out, result, stdout, exitStatus>>
emitVars == <<objLoc, dataStorage, buildPos>>
vars ==
  <<pc, argc, fileOpen, tokens, parserVars, stmtVars, dirVars, interpVars, shellVars,
    emitVars, eosRes, expCall>>

\* a consumed token kept in a local: its text and its location
Located(tok, l) == [val |-> tok.val, loc |-> l]
NoTok == [val |-> "", loc |-> 0]

NoChunk == <<"none">>
NoResult == [ok |-> FALSE, text |-> <<>>]

NoCall == [cls |-> "", read |-> FALSE, tok |-> EMPTY]

\* no expression has its Object Location assigned
NoObjLocs == [e \in {} |-> 0]

Init ==
  /\ pc = "handleArgs"
  /\ argc \in {1, 2}
  /\ fileOpen = FALSE
  /\ tokens = <<>>
  /\ pos = 1
  /\ errors = <<>>
  /\ globals = NoGlobals
  /\ hoisted = <<>>
  /\ otherStmts = <<>>
  /\ produced = <<>>
  /\ ast = <<>>
  /\ stmtRes = NULL
  /\ ret = "none"
  /\ termRes = NULL
  /\ cmdTok = NoTok
  /\ cmpLeft = NULL
  /\ dirTok = NoTok
  /\ dirArgs = <<>>
  /\ dirBody = <<>>
  /\ parenCounter = 0
  /\ itoks = <<>>
  /\ ipos = 1
  /\ ss = <<>>
  /\ compiled = FALSE
  /\ chunk = NoChunk
  /\ out = NoChunk
  /\ result = NoResult
  /\ stdout = <<>>
  /\ exitStatus = -1
  /\ objLoc = NoObjLocs
  /\ dataStorage = 0
  /\ buildPos = 1
  /\ eosRes = TRUE
  /\ expCall = NoCall

(***************************************************************************)
(* handleArgs and the head of buildSourceFile: the argument count, the     *)
(* null chunk pointer, opening the file.  Reading the file and             *)
(* Lexer::analyze fill the token stream: any stream within the bounds.     *)
(***************************************************************************)
HandleArgs ==
  /\ pc = "handleArgs"
  /\ IF argc # 2
     THEN /\ result' = [ok |-> FALSE, text |-> <<PlainLine("Invalid arguments", "")>>]
          /\ pc' = "main"
     ELSE /\ result' = result
          /\ pc' = "open"
  /\ out' = NoChunk
  /\ UNCHANGED <<argc, fileOpen, tokens, parserVars, stmtVars, dirVars, interpVars,
                 ss, compiled, chunk, stdout, exitStatus>>
  /\ UNCHANGED emitVars
  /\ UNCHANGED eosRes
  /\ UNCHANGED expCall

OpenFile ==
  /\ pc = "open"
  /\ \E isOpen \in BOOLEAN :
       /\ fileOpen' = isOpen
       /\ IF isOpen
          THEN /\ tokens' \in Sources
               /\ pc' = "parse"
               /\ UNCHANGED <<result, stdout>>
          ELSE /\ tokens' = tokens
               /\ stdout' = Append(stdout, PlainLine("Could not open file", ""))
               /\ pc' = "main"
               /\ result' = [ok |-> FALSE, text |-> ss]
  /\ UNCHANGED <<argc, parserVars, stmtVars, dirVars, interpVars,
                 ss, compiled, chunk, out, exitStatus>>
  /\ UNCHANGED emitVars
  /\ UNCHANGED eosRes
  /\ UNCHANGED expCall

(***************************************************************************)
(* Parser::skipStatementTerminators, one iteration per step; it is called  *)
(* at the head of parse() and of parseStatement().                         *)
(***************************************************************************)
SkipStatementTerminators(here, after) ==
  /\ pc = here
  /\ LET m == Match(tokens, pos, "TK_NEWLINE", TRUE) IN
       IF m.tok # EMPTY
       THEN /\ pos' = m.pos
            /\ pc' = here
       ELSE /\ pos' = pos
            /\ pc' = after
  /\ UNCHANGED <<argc, fileOpen, tokens, errors, globals, hoisted, otherStmts, produced, ast,
                 stmtVars, dirVars, interpVars, shellVars>>
  /\ UNCHANGED emitVars
  /\ UNCHANGED eosRes
  /\ UNCHANGED expCall

ParseSkip == SkipStatementTerminators("parse", "loop")

StmtSkip == SkipStatementTerminators("stmt_skip", "stmt")

\* Parser::parse, the head of the while loop
ParseLoop ==
  /\ pc = "loop"
  /\ pc' = IF HasNext(tokens, pos) THEN "stmt_skip" ELSE "push"
  /\ UNCHANGED <<argc, fileOpen, tokens, parserVars, stmtVars, dirVars, interpVars, shellVars>>
  /\ UNCHANGED emitVars
  /\ UNCHANGED eosRes
  /\ UNCHANGED expCall

(***************************************************************************)
(* Parser::parseStatement after its terminators are skipped: the dispatch  *)
(* on the next token's class, with parseLabel and the head of parseCommand *)
(* and of parseDirective.                                                  *)
(***************************************************************************)
ParseStatement ==
  /\ pc = "stmt"
  /\ LET token == Peek(tokens, pos) IN
       IF ~HasNext(tokens, pos)
       THEN /\ stmtRes' = NULL
            /\ pc' = "stmt_ret"
            /\ UNCHANGED <<pos, errors, globals, ret, cmdTok, dirTok, dirArgs, dirBody,
                           stdout>>
       ELSE IF token.cls = "TK_DIRECTIVE"
       THEN LET e == Expect(tokens, pos, errors, "TK_DIRECTIVE", TRUE) IN
              /\ dirTok' = Located(e.tok, pos)
              /\ dirArgs' = <<>>
              /\ dirBody' = <<>>
              /\ pos' = e.pos
              /\ errors' = e.errors
              /\ pc' = "dir_args"
              /\ UNCHANGED <<globals, stmtRes, ret, cmdTok, stdout>>
       ELSE IF token.cls = "TK_LABEL"
       THEN LET r == ParseLabel(tokens, pos, errors, globals) IN
              /\ stmtRes' = r.res
              /\ pos' = r.pos
              /\ errors' = r.errors
              /\ globals' = r.globals
              /\ stdout' = stdout \o r.printed
              /\ pc' = "stmt_end"
              /\ UNCHANGED <<ret, cmdTok, dirTok, dirArgs, dirBody>>
       ELSE IF token.cls = "TK_IDENT"
       THEN LET e == Expect(tokens, pos, errors, "TK_IDENT", TRUE) IN
              IF e.tok.val \in JumpMnemonics
              THEN /\ cmdTok' = Located(e.tok, pos)
                   /\ ret' = "jmp"
                   /\ pos' = e.pos
                   /\ errors' = e.errors
                   /\ pc' = "term"
                   /\ UNCHANGED <<globals, stmtRes, dirTok, dirArgs, dirBody, stdout>>
              ELSE IF e.tok.val = "cmp"
              THEN /\ cmdTok' = Located(e.tok, pos)
                   /\ ret' = "cmp_left"
                   /\ pos' = e.pos
                   /\ errors' = e.errors
                   /\ pc' = "term"
                   /\ UNCHANGED <<globals, stmtRes, dirTok, dirArgs, dirBody, stdout>>
              ELSE LET r == ParseCommandIdentifier(tokens, e.pos, e.errors) IN
                     /\ stmtRes' = r.res
                     /\ pos' = r.pos
                     /\ errors' = r.errors
                     /\ pc' = "stmt_end"
                     /\ UNCHANGED <<globals, ret, cmdTok, dirTok, dirArgs, dirBody,
                                    stdout>>
       ELSE /\ ret' = "expr"
            /\ pc' = "term"
            /\ UNCHANGED <<pos, errors, globals, stmtRes, cmdTok, dirTok, dirArgs, dirBody,
                           stdout>>
  /\ UNCHANGED <<argc, fileOpen, tokens, hoisted, otherStmts, produced, ast, termRes, cmpLeft,
                 parenCounter, interpVars, ss, compiled, chunk, out, result,
                 exitStatus>>
  /\ UNCHANGED emitVars
  /\ UNCHANGED eosRes
  /\ UNCHANGED expCall

(***************************************************************************)
(* Parser::parseTerm.  An interpolation span is consumed and re-lexed into *)
(* a stream of its own, which Interpolate then walks.                      *)
(***************************************************************************)
Term ==
  /\ pc = "term"
  /\ IF Peek(tokens, pos).cls = "TK_INTERPOLATION"
     THEN LET e == Expect(tokens, pos, errors, "TK_INTERPOLATION", TRUE) IN
            /\ itoks' = Lex(e.tok.body)
            /\ ipos' = 1
            /\ pos' = e.pos
            /\ errors' = e.errors
            /\ termRes' = NULL
            /\ pc' = "interp"
     ELSE LET r == ParseTerm(tokens, pos, errors) IN
            /\ termRes' = r.res
            /\ pos' = r.pos
            /\ errors' = r.errors
            /\ pc' = "term_ret"
            /\ UNCHANGED <<itoks, ipos>>
  /\ UNCHANGED <<argc, fileOpen, tokens, globals, hoisted, otherStmts, produced, ast,
                 stmtRes, ret, cmdTok, cmpLeft, dirVars, shellVars>>
  /\ UNCHANGED emitVars
  /\ UNCHANGED eosRes
  /\ UNCHANGED expCall

\* mutant of LookupGlobal: a lookup that finds nothing
LookupGlobal_Misses(g, n) == [value |-> NULL, globals |-> g]

\* mutant of LookupGlobal: a lookup that inserts an entry for a missing name
LookupGlobal_Inserts(g, n) ==
  [value |-> BoundGlobalsGet(g, n),
   globals |-> IF n \in DOMAIN g THEN g ELSE BoundGlobalsSet(g, n, NULL)]

\* the lookup of parseInterpolation: the value bound to the name and the
\* table after the lookup
LookupGlobal(g, n) == [value |-> BoundGlobalsGet(g, n), globals |-> g]

\* Parser::parseInterpolation, one iteration of its while loop
Interpolate ==
  /\ pc = "interp"
  /\ IF HasNext(itoks, ipos)
     THEN LET token == Peek(itoks, ipos) IN
            /\ ipos' = StreamNext(itoks, ipos)
            /\ IF token.cls = "TK_IDENT"
               THEN LET look == LookupGlobal(globals, token.val) IN
                      /\ globals' = look.globals
                      /\ IF look.value # NULL
                         THEN /\ termRes' = look.value
                              /\ errors' = errors
                              /\ pc' = "term_ret"
                         ELSE /\ errors' = AddError(errors,
                                   CompilerError(LEVEL_ERROR, "Msg_undeclared_identifier",
                                                 ipos, token.val))
                              /\ termRes' = termRes
                              /\ pc' = "interp"
               ELSE /\ errors' = AddError(errors,
                         CompilerError(LEVEL_ERROR, "Msg_expected_identifier", ipos, ""))
                    /\ termRes' = termRes
                    /\ globals' = globals
                    /\ pc' = "interp"
     ELSE /\ termRes' = NULL
          /\ pc' = "term_ret"
          /\ UNCHANGED <<ipos, errors, globals>>
  /\ UNCHANGED <<argc, fileOpen, tokens, pos, hoisted, otherStmts, produced, ast,
                 stmtRes, ret, cmdTok, cmpLeft, dirVars, itoks, shellVars>>
  /\ UNCHANGED emitVars
  /\ UNCHANGED eosRes
  /\ UNCHANGED expCall

(***************************************************************************)
(* The return of parseTerm to its caller: parseStatement's bare            *)
(* expression, parseCommand's jump operand and compare operands, or        *)
(* parseDirective's argument loop.                                         *)
(***************************************************************************)
TermReturn ==
  /\ pc = "term_ret"
  /\ CASE ret = "expr" ->
            /\ stmtRes' = termRes
            /\ pc' = "stmt_end"
            /\ UNCHANGED <<ret, cmpLeft, dirArgs>>
       [] ret = "jmp" ->
            /\ stmtRes' = IF termRes = NULL THEN NULL
                          ELSE AstJmpStatement(termRes, cmdTok.val, cmdTok.loc)
            /\ pc' = "stmt_end"
            /\ UNCHANGED <<ret, cmpLeft, dirArgs>>
       [] ret = "cmp_left" ->
            IF termRes = NULL
            THEN /\ stmtRes' = NULL
                 /\ pc' = "stmt_end"
                 /\ UNCHANGED <<ret, cmpLeft, dirArgs>>
            ELSE /\ cmpLeft' = termRes
                 /\ ret' = "cmp_right"
                 /\ pc' = "term"
                 /\ UNCHANGED <<stmtRes, dirArgs>>
       [] ret = "cmp_right" ->
            /\ stmtRes' = IF termRes = NULL THEN NULL
                          ELSE AstCmpStatement(cmpLeft, termRes, cmdTok.loc)
            /\ pc' = "stmt_end"
            /\ UNCHANGED <<ret, cmpLeft, dirArgs>>
       [] ret = "dir_arg" ->
            /\ IF termRes # NULL
               THEN /\ dirArgs' = Append(dirArgs, termRes)
                    /\ pc' = "dir_args"
               ELSE /\ dirArgs' = dirArgs
                    /\ pc' = "dir_brace"
            /\ UNCHANGED <<stmtRes, ret, cmpLeft>>
  /\ termRes' = NULL
  /\ itoks' = <<>>
  /\ ipos' = 1
  /\ UNCHANGED <<argc, fileOpen, tokens, parserVars, cmdTok, dirTok, dirBody, parenCounter,
                 shellVars>>
  /\ UNCHANGED emitVars
  /\ UNCHANGED eosRes
  /\ UNCHANGED expCall

(***************************************************************************)
(* Parser::parseDirective: the argument loop, the opening brace, the body  *)
(* loop, one iteration per step.                                           *)
(***************************************************************************)
DirectiveArgs ==
  /\ pc = "dir_args"
  /\ IF /\ HasNext(tokens, pos)
        /\ Match(tokens, pos, "TK_NEWLINE", FALSE).tok = EMPTY
        /\ Match(tokens, pos, "TK_OPEN_BRACE", FALSE).tok = EMPTY
     THEN /\ ret' = "dir_arg"
          /\ pc' = "term"
     ELSE /\ ret' = ret
          /\ pc' = "dir_brace"
  /\ UNCHANGED <<argc, fileOpen, tokens, parserVars, stmtRes, termRes, cmdTok, cmpLeft,
                 dirVars, interpVars, shellVars>>
  /\ UNCHANGED emitVars
  /\ UNCHANGED eosRes
  /\ UNCHANGED expCall

DirectiveBrace ==
  /\ pc = "dir_brace"
  /\ LET m == Match(tokens, pos, "TK_OPEN_BRACE", TRUE) IN
       IF m.tok # EMPTY
       THEN /\ parenCounter' = 1
            /\ pos' = m.pos
            /\ pc' = "dir_body"
            /\ UNCHANGED <<stmtRes, dirTok, dirArgs, dirBody>>
       ELSE /\ stmtRes' = AstDirective(dirTok.val, dirArgs, dirBody, dirTok.loc)
            /\ dirTok' = NoTok
            /\ dirArgs' = <<>>
            /\ dirBody' = <<>>
            /\ pc' = "stmt_end"
            /\ UNCHANGED <<pos, parenCounter>>
  /\ UNCHANGED <<argc, fileOpen, tokens, errors, globals, hoisted, otherStmts, produced, ast,
                 ret, termRes, cmdTok, cmpLeft, interpVars, shellVars>>
  /\ UNCHANGED emitVars
  /\ UNCHANGED eosRes
  /\ UNCHANGED expCall

\* mutant of DirectiveBody: the first closing brace ends the body
DirectiveBody_FirstClose ==
  /\ pc = "dir_body"
  /\ LET counter ==
           IF Match(tokens, pos, "TK_OPEN_BRACE", FALSE).tok # EMPTY
           THEN parenCounter
           ELSE IF Match(tokens, pos, "TK_CLOSE_BRACE", FALSE).tok # EMPTY
                THEN 0
                ELSE parenCounter
     IN
       IF HasNext(tokens, pos) /\ counter # 0
       THEN /\ parenCounter' = counter
            /\ dirBody' = Append(dirBody, GetRepr(Peek(tokens, pos)))
            /\ pos' = StreamNext(tokens, pos)
            /\ pc' = "dir_body"
            /\ UNCHANGED <<stmtRes, dirTok, dirArgs>>
       ELSE /\ pos' = IF HasNext(tokens, pos) THEN StreamNext(tokens, pos) ELSE pos
            /\ stmtRes' = AstDirective(dirTok.val, dirArgs, dirBody, dirTok.loc)
            /\ dirTok' = NoTok
            /\ dirArgs' = <<>>
            /\ dirBody' = <<>>
            /\ parenCounter' = 0
            /\ pc' = "stmt_end"
  /\ UNCHANGED <<argc, fileOpen, tokens, errors, globals, hoisted, otherStmts, produced, ast,
                 ret, termRes, cmdTok, cmpLeft, interpVars, shellVars>>
  /\ UNCHANGED emitVars
  /\ UNCHANGED eosRes
  /\ UNCHANGED expCall

DirectiveBody ==
  /\ pc = "dir_body"
  /\ LET counter ==
           IF Match(tokens, pos, "TK_OPEN_BRACE", FALSE).tok # EMPTY
           THEN parenCounter + 1
           ELSE IF Match(tokens, pos, "TK_CLOSE_BRACE", FALSE).tok # EMPTY
                THEN parenCounter - 1
                ELSE parenCounter
     IN
       IF HasNext(tokens, pos) /\ counter # 0
       THEN /\ parenCounter' = counter
            /\ dirBody' = Append(dirBody, GetRepr(Peek(tokens, pos)))
            /\ pos' = StreamNext(tokens, pos)
            /\ pc' = "dir_body"
            /\ UNCHANGED <<stmtRes, dirTok, dirArgs>>
       ELSE /\ pos' = IF HasNext(tokens, pos) THEN StreamNext(tokens, pos) ELSE pos
            /\ stmtRes' = AstDirective(dirTok.val, dirArgs, dirBody, dirTok.loc)
            /\ dirTok' = NoTok
            /\ dirArgs' = <<>>
            /\ dirBody' = <<>>
            /\ parenCounter' = 0
            /\ pc' = "stmt_end"
  /\ UNCHANGED <<argc, fileOpen, tokens, errors, globals, hoisted, otherStmts, produced, ast,
                 ret, termRes, cmdTok, cmpLeft, interpVars, shellVars>>
  /\ UNCHANGED emitVars
  /\ UNCHANGED eosRes
  /\ UNCHANGED expCall

(***************************************************************************)
(* The tail of parseStatement: Parser::expectEndOfStmt, whose skipping     *)
(* do-while loop is one iteration per step.                                *)
(***************************************************************************)
StatementEnd ==
  /\ pc = "stmt_end"
  /\ IF stmtRes # NULL /\ HasNext(tokens, pos)
     THEN LET m == Match(tokens, pos, "TK_NEWLINE", TRUE) IN
            IF m.tok # EMPTY
            THEN /\ pos' = m.pos
                 /\ errors' = errors
                 /\ eosRes' = TRUE
                 /\ pc' = "stmt_ret"
            ELSE /\ errors' = AddError(errors,
                      CompilerError(LEVEL_ERROR, "Msg_expected_end_of_statement",
                                    CurrentLocation(tokens, pos), ""))
                 /\ pos' = pos
                 /\ eosRes' = eosRes
                 /\ pc' = "eos_skip"
     ELSE /\ pc' = "stmt_ret"
          /\ UNCHANGED <<pos, errors, eosRes>>
  /\ UNCHANGED <<argc, fileOpen, tokens, globals, hoisted, otherStmts, produced, ast,
                 stmtVars, dirVars, interpVars, shellVars>>
  /\ UNCHANGED emitVars
  /\ UNCHANGED expCall

\* mutant of EndOfStmtSkip: the skipping stops in front of the newline
EndOfStmtSkip_KeepsNewline ==
  /\ pc = "eos_skip"
  /\ LET p1 == StreamNext(tokens, pos)
         m == Match(tokens, p1, "TK_NEWLINE", FALSE)
     IN
       IF HasNext(tokens, p1) /\ m.tok = EMPTY
       THEN /\ pos' = p1
            /\ eosRes' = eosRes
            /\ pc' = "eos_skip"
       ELSE /\ pos' = p1
            /\ eosRes' = FALSE
            /\ pc' = "stmt_ret"
  /\ UNCHANGED <<argc, fileOpen, tokens, errors, globals, hoisted, otherStmts, produced, ast,
                 stmtVars, dirVars, interpVars, shellVars>>
  /\ UNCHANGED emitVars
  /\ UNCHANGED expCall

EndOfStmtSkip ==
  /\ pc = "eos_skip"
  /\ LET p1 == StreamNext(tokens, pos)
         m == Match(tokens, p1, "TK_NEWLINE", TRUE)
     IN
       IF HasNext(tokens, p1) /\ m.tok = EMPTY
       THEN /\ pos' = p1
            /\ eosRes' = eosRes
            /\ pc' = "eos_skip"
       ELSE /\ pos' = IF HasNext(tokens, p1) THEN m.pos ELSE p1
            /\ eosRes' = FALSE
            /\ pc' = "stmt_ret"
  /\ UNCHANGED <<argc, fileOpen, tokens, errors, globals, hoisted, otherStmts, produced, ast,
                 stmtVars, dirVars, interpVars, shellVars>>
  /\ UNCHANGED emitVars
  /\ UNCHANGED expCall

(***************************************************************************)
(* Parser::parse: the body of the while loop after parseStatement          *)
(* returned, and the two pushing loops.                                    *)
(***************************************************************************)
StatementReturn ==
  /\ pc = "stmt_ret"
  /\ IF stmtRes # NULL
     THEN /\ hoisted' = IF IsHoisted(stmtRes) THEN Append(hoisted, stmtRes) ELSE hoisted
          /\ otherStmts' = IF IsHoisted(stmtRes) THEN otherStmts
                           ELSE Append(otherStmts, stmtRes)
          /\ produced' = Append(produced, stmtRes)
          /\ pc' = "loop"
     ELSE /\ pc' = "push"
          /\ UNCHANGED <<hoisted, otherStmts, produced>>
  /\ stmtRes' = NULL
  /\ ret' = "none"
  /\ cmdTok' = NoTok
  /\ cmpLeft' = NULL
  /\ UNCHANGED <<argc, fileOpen, tokens, pos, errors, globals, ast, termRes,
                 dirVars, interpVars, shellVars>>
  /\ UNCHANGED emitVars
  /\ UNCHANGED eosRes
  /\ UNCHANGED expCall

\* mutant of Push: the other statements are pushed before the hoisted ones
Push_OthersFirst ==
  /\ pc = "push"
  /\ ast' = ast \o otherStmts \o hoisted
  /\ pc' = "analyze"
  /\ UNCHANGED <<argc, fileOpen, tokens, pos, errors, globals, hoisted, otherStmts,
                 produced, stmtVars, dirVars, interpVars, shellVars>>
  /\ UNCHANGED emitVars
  /\ UNCHANGED eosRes
  /\ UNCHANGED expCall

Push ==
  /\ pc = "push"
  /\ ast' = ast \o hoisted \o otherStmts
  /\ pc' = "analyze"
  /\ UNCHANGED <<argc, fileOpen, tokens, pos, errors, globals, hoisted, otherStmts, produced,
                 stmtVars, dirVars, interpVars, shellVars>>
  /\ UNCHANGED emitVars
  /\ UNCHANGED eosRes
  /\ UNCHANGED expCall

(***************************************************************************)
(* Analyzer::analyze (modelled from the specification, sections 4.4 and    *)
(* 4.5): one forward pass; a label declaration records its label in the    *)
(* symbol table, an identifier that is not bound is flagged, a jump or a   *)
(* compare visits its operands.  No node stops the pass.                   *)
(***************************************************************************)
VisitExpression(e, g) ==
  IF e.kind = "identifier" /\ BoundGlobalsGet(g, e.name) = NULL
  THEN <<CompilerError(LEVEL_ERROR, "Msg_undeclared_identifier", e.loc, e.name)>>
  ELSE <<>>

RECURSIVE VisitOperands(_, _)
VisitOperands(es, g) ==
  IF es = <<>> THEN <<>>
  ELSE VisitExpression(Head(es), g) \o VisitOperands(Tail(es), g)

VisitStatement(stmt, g) ==
  CASE stmt.kind = "label_decl" ->
         [errors |-> <<>>, globals |-> BoundGlobalsSet(g, stmt.name, stmt.sub[1])]
    [] stmt.kind \in {"jmp", "cmp"} ->
         [errors |-> VisitOperands(stmt.sub, g), globals |-> g]
    [] stmt.kind = "identifier" ->
         [errors |-> VisitExpression(stmt, g), globals |-> g]
    [] OTHER -> [errors |-> <<>>, globals |-> g]

RECURSIVE AnalyzeFrom(_, _, _)
AnalyzeFrom(stmts, errs, g) ==
  IF stmts = <<>> THEN [errors |-> errs, globals |-> g]
  ELSE LET v == VisitStatement(Head(stmts), g) IN
         AnalyzeFrom(Tail(stmts), errs \o v.errors, v.globals)

Analyze ==
  /\ pc = "analyze"
  /\ LET a == AnalyzeFrom(ast, errors, globals) IN
       /\ errors' = a.errors
       /\ globals' = a.globals
  /\ pc' = "report"
  /\ UNCHANGED <<argc, fileOpen, tokens, pos, hoisted, otherStmts, produced, ast,
                 stmtVars, dirVars, interpVars, shellVars>>
  /\ UNCHANGED emitVars
  /\ UNCHANGED eosRes
  /\ UNCHANGED expCall

(***************************************************************************)
(* Compiler::compile (modelled from the specification, section 4.6): one   *)
(* forward pass appending each statement's opcode and operands to a fresh  *)
(* chunk.                                                                  *)
(***************************************************************************)
BuildStatement(stmt) ==
  <<stmt.kind>> \o [i \in 1..Len(stmt.sub) |-> stmt.sub[i].kind]

RECURSIVE Compile(_)
Compile(stmts) ==
  IF stmts = <<>> THEN <<>>
  ELSE BuildStatement(Head(stmts)) \o Compile(Tail(stmts))

(***************************************************************************)
(* Object Locations (specification, sections 3 and 4.6).  An expression's  *)
(* location is unset until emission resolves it: a data-location operand   *)
(* names its own slot and storage class, any other expression gets the     *)
(* next static slot of the data storage allocator.  A node that several    *)
(* statements share (a label and the jumps that interpolate it) is         *)
(* resolved by the first statement that visits it.                         *)
(***************************************************************************)
ObjLoc(location, store) == [location |-> location, store |-> store]

UnsetObjLoc == ObjLoc(0, NullDataStore)

\* AstExpression::getObjLoc
GetObjLoc(locs, e) == IF e \in DOMAIN locs THEN locs[e] ELSE UnsetObjLoc

SetObjLoc(locs, e, loc) ==
  [x \in (DOMAIN locs) \cup {e} |-> IF x = e THEN loc ELSE locs[x]]

\* the expressions the build of a statement visits
VisitedBy(stmt) ==
  CASE stmt.kind = "label_decl" -> <<stmt.sub[1]>>
    [] stmt.kind \in {"jmp", "cmp"} -> stmt.sub
    [] stmt.kind = "directive" -> <<>>
    [] OTHER -> <<stmt>>

\* mutant of ResolveObjLoc: every visit assigns the location anew
ResolveObjLoc_Reassigns(e, st) ==
  IF e.kind = "data_location"
  THEN [locs |-> SetObjLoc(st.locs, e, ObjLoc(e.num, e.body[1])), next |-> st.next]
  ELSE [locs |-> SetObjLoc(st.locs, e, ObjLoc(st.next, StaticDataStore)),
        next |-> st.next + 1]

\* ensure that the expression's location is resolved; st is the locations
\* assigned so far and the allocator's next free slot
ResolveObjLoc(e, st) ==
  IF e \in DOMAIN st.locs THEN st
  ELSE IF e.kind = "data_location"
  THEN [locs |-> SetObjLoc(st.locs, e, ObjLoc(e.num, e.body[1])), next |-> st.next]
  ELSE [locs |-> SetObjLoc(st.locs, e, ObjLoc(st.next, StaticDataStore)),
        next |-> st.next + 1]

RECURSIVE ResolveAll(_, _)
ResolveAll(es, st) ==
  IF es = <<>> THEN st ELSE ResolveAll(Tail(es), ResolveObjLoc(Head(es), st))

(***************************************************************************)
(* The tail of buildSourceFile: the diagnostics are sorted and rendered,   *)
(* then emission runs behind its gate.                                     *)
(***************************************************************************)
\* mutant of Report: the diagnostics are rendered without being sorted
Report_Unsorted ==
  /\ pc = "report"
  /\ errors' = errors
  /\ ss' = WriteOutput(errors)
  /\ pc' = "emit"
  /\ UNCHANGED <<argc, fileOpen, tokens, pos, globals, hoisted, otherStmts, produced,
                 ast, stmtVars, dirVars, interpVars, compiled, chunk, out, result,
                 stdout, exitStatus>>
  /\ UNCHANGED emitVars
  /\ UNCHANGED eosRes
  /\ UNCHANGED expCall

Report ==
  /\ pc = "report"
  /\ errors' = SortErrors(errors)
  /\ ss' = WriteOutput(SortErrors(errors))
  /\ pc' = "emit"
  /\ UNCHANGED <<argc, fileOpen, tokens, pos, globals, hoisted, otherStmts, produced, ast,
                 stmtVars, dirVars, interpVars, compiled, chunk, out, result,
                 stdout, exitStatus>>
  /\ UNCHANGED emitVars
  /\ UNCHANGED eosRes
  /\ UNCHANGED expCall

\* mutant of EmissionAllowed: emission is not gated
EmissionAllowed_Always == TRUE

\* the condition of the if that guards emission
EmissionAllowed == ~HasFatalErrors(errors)

Emit ==
  /\ pc = "emit"
  /\ IF EmissionAllowed
     THEN /\ compiled' = TRUE
          /\ chunk' = <<>>
          /\ buildPos' = 1
          /\ pc' = "build"
          /\ UNCHANGED result
     ELSE /\ result' = [ok |-> FALSE, text |-> ss]
          /\ pc' = "main"
          /\ UNCHANGED <<compiled, chunk, buildPos>>
  /\ UNCHANGED <<argc, fileOpen, tokens, parserVars, stmtVars, dirVars, interpVars,
                 ss, out, stdout, exitStatus, objLoc, dataStorage>>
  /\ UNCHANGED eosRes
  /\ UNCHANGED expCall

\* Compiler::compile into the local chunk, one statement per step, and the
\* return of buildSourceFile after it
Build ==
  /\ pc = "build"
  /\ IF buildPos <= Len(ast)
     THEN LET stmt == ast[buildPos]
              st == ResolveAll(VisitedBy(stmt), [locs |-> objLoc, next |-> dataStorage])
          IN
            /\ objLoc' = st.locs
            /\ dataStorage' = st.next
            /\ chunk' = chunk \o BuildStatement(stmt)
            /\ buildPos' = buildPos + 1
            /\ pc' = "build"
            /\ UNCHANGED result
     ELSE /\ result' = [ok |-> TRUE, text |-> <<>>]
          /\ pc' = "main"
          /\ UNCHANGED <<chunk, emitVars>>
  /\ UNCHANGED <<argc, fileOpen, tokens, parserVars, stmtVars, dirVars, interpVars,
                 ss, compiled, out, stdout, exitStatus>>
  /\ UNCHANGED eosRes
  /\ UNCHANGED expCall

\* main: the exit status and what is printed
Main ==
  /\ pc = "main"
  /\ IF result.ok
     THEN /\ exitStatus' = 0
          /\ stdout' = stdout
     ELSE /\ exitStatus' = 1
          /\ stdout' = stdout \o result.text
  /\ pc' = "done"
  /\ UNCHANGED <<argc, fileOpen, tokens, parserVars, stmtVars, dirVars, interpVars,
                 ss, compiled, chunk, out, result>>
  /\ UNCHANGED emitVars
  /\ UNCHANGED eosRes
  /\ UNCHANGED expCall

Next ==
  \/ HandleArgs
  \/ OpenFile
  \/ ParseSkip
  \/ ParseLoop
  \/ StmtSkip
  \/ ParseStatement
  \/ Term
  \/ Interpolate
  \/ TermReturn
  \/ DirectiveArgs
  \/ DirectiveBrace
  \/ DirectiveBody
  \/ StatementEnd
  \/ EndOfStmtSkip
  \/ StatementReturn
  \/ Push
  \/ Analyze
  \/ Report
  \/ Emit
  \/ Build
  \/ Main

Spec == Init /\ [][Next]_vars

\* the program is one thread: a step that can be taken is taken
FairSpec == Spec /\ WF_vars(Next)

(***************************************************************************)
(* Parser::expect on its own.  In the parser every call of expect follows  *)
(* a match of the same class, so its failing branch is not taken there;    *)
(* this specification calls it with any class at any cursor of a short     *)
(* stream, until a call has failed.                                        *)
(***************************************************************************)
\* the classes the parser passes to expect
ExpectClasses ==
  {"TK_IDENT", "TK_INTEGER", "TK_STRING", "TK_DIRECTIVE", "TK_LABEL",
   "TK_INTERPOLATION", "TK_REG", "TK_LOCAL"}

ExpectSeqs == UNION { [1..n -> CoreAlphabet] : n \in 0..(MaxLen - 1) }

ExpectInit ==
  /\ pc = "expect"
  /\ argc = 2
  /\ fileOpen = TRUE
  /\ tokens \in ExpectSeqs
  /\ pos \in 1..(Len(tokens) + 1)
  /\ errors = <<>>
  /\ globals = NoGlobals
  /\ hoisted = <<>>
  /\ otherStmts = <<>>
  /\ produced = <<>>
  /\ ast = <<>>
  /\ stmtRes = NULL
  /\ ret = "none"
  /\ termRes = NULL
  /\ cmdTok = NoTok
  /\ cmpLeft = NULL
  /\ dirTok = NoTok
  /\ dirArgs = <<>>
  /\ dirBody = <<>>
  /\ parenCounter = 0
  /\ itoks = <<>>
  /\ ipos = 1
  /\ ss = <<>>
  /\ compiled = FALSE
  /\ chunk = NoChunk
  /\ out = NoChunk
  /\ result = NoResult
  /\ stdout = <<>>
  /\ exitStatus = -1
  /\ objLoc = NoObjLocs
  /\ dataStorage = 0
  /\ buildPos = 1
  /\ eosRes = TRUE
  /\ expCall = NoCall

ExpectCall ==
  /\ pc = "expect"
  /\ errors = <<>>
  /\ \E cls \in ExpectClasses, read \in BOOLEAN :
       LET e == Expect(tokens, pos, errors, cls, read) IN
         /\ expCall' = [cls |-> cls, read |-> read, tok |-> e.tok]
         /\ pos' = e.pos
         /\ errors' = e.errors
  /\ UNCHANGED <<pc, argc, fileOpen, tokens, globals, hoisted, otherStmts, produced, ast,
                 stmtVars, dirVars, interpVars, shellVars, emitVars, eosRes>>

ExpectNext == ExpectCall

ExpectSpec == ExpectInit /\ [][ExpectNext]_vars

(***************************************************************************)
(* Properties.                                                             *)
(***************************************************************************)
ParseReturned == pc \in {"analyze", "report", "emit", "build", "main", "done"}

NotHoisted(stmt) == ~IsHoisted(stmt)

\* C1: bytecode emission (Compiler::compile) is started only when the
\* diagnostic list holds no diagnostic of error severity or above; with a
\* fatal diagnostic present compile is never invoked and no chunk is produced.
C1_EmissionGated ==
  /\ compiled => ~HasFatalErrors(errors)
  /\ (pc \in {"main", "done"} /\ HasFatalErrors(errors)) =>
       (~compiled /\ chunk = NoChunk /\ out = NoChunk)

C1_Witness == pc = "done" /\ HasFatalErrors(errors) /\ ~compiled /\ chunk = NoChunk

\* C2: after parse() returns, the AST sequence holds every statement that
\* parseStatement produced exactly once: the hoisted ones first, in source
\* order, then the others, in source order (a stable partition).
C2_StablePartition ==
  ParseReturned =>
    ast = SelectSeq(produced, IsHoisted) \o SelectSeq(produced, NotHoisted)

C2_Witness ==
  /\ pc = "done"
  /\ Len(produced) >= 2
  /\ ~IsHoisted(produced[1])
  /\ IsHoisted(produced[2])
  /\ ast # produced

\* a token that opens, resp. closes, a statement of the source text
StartsStatement(i) == i = 1 \/ tokens[i - 1].cls = "TK_NEWLINE"

EndsStatement(i) == i = Len(tokens) \/ tokens[i + 1].cls = "TK_NEWLINE"

ValidLabelDecl(j, n) ==
  /\ j \in 1..Len(tokens)
  /\ tokens[j] = Tok("TK_LABEL", n)
  /\ StartsStatement(j)
  /\ EndsStatement(j)

NamesLabel(tok, n) == tok = Tok("TK_IDENT", n) \/ tok = Interp(<<n>>)

\* a jump, or a compare, whose operand names n
JumpReferences(i, n) ==
  /\ i \in 1..Len(tokens)
  /\ StartsStatement(i)
  /\ tokens[i].cls = "TK_IDENT"
  /\ \/ /\ tokens[i].val \in JumpMnemonics
        /\ i + 1 <= Len(tokens)
        /\ NamesLabel(tokens[i + 1], n)
        /\ EndsStatement(i + 1)
     \/ /\ tokens[i].val = "cmp"
        /\ i + 2 <= Len(tokens)
        /\ tokens[i + 1].cls \in {"TK_IDENT", "TK_INTERPOLATION"}
        /\ tokens[i + 2].cls \in {"TK_IDENT", "TK_INTERPOLATION"}
        /\ NamesLabel(tokens[i + 1], n) \/ NamesLabel(tokens[i + 2], n)
        /\ EndsStatement(i + 2)

Undeclared(n) ==
  \E k \in 1..Len(errors) :
    errors[k].msg = "Msg_undeclared_identifier" /\ errors[k].str = n

\* C3: for every valid label declaration anywhere in a source unit, a jump or
\* compare statement that references the label by name anywhere else in the
\* unit, before or after the declaration, resolves with no
\* undeclared-identifier diagnostic.
C3_LabelReferenceResolves ==
  (pc = "done" /\ argc = 2 /\ fileOpen) =>
    \A i, j \in 1..Len(tokens) :
      \A n \in {tokens[k].val : k \in 1..Len(tokens)} :
        (ValidLabelDecl(j, n) /\ JumpReferences(i, n)) => ~Undeclared(n)

\* C4: a parse diagnostic never stops the parse: after a statement for which
\* parseStatement yields no statement while tokens remain, parse() goes on
\* with the following statements.
C4_ParseContinues ==
  [][(pc = "stmt_ret" /\ stmtRes = NULL /\ HasNext(tokens, pos)) => pc' = "loop"]_vars

\* C5: for every finite token stream parse() terminates: every loop of
\* parse, skipStatementTerminators, expectEndOfStmt, parseDirective and
\* parseInterpolation either advances its token cursor or exits.
C5_ParseTerminates ==
  /\ <>ParseReturned
  /\ [][/\ (pc \in {"parse", "stmt_skip", "eos_skip", "dir_body"} /\ pc' = pc)
             => pos' > pos
        /\ (pc = "interp" /\ pc' = pc) => ipos' > ipos
        /\ (pc = "stmt_ret" /\ pc' = "loop") => pos > stmtRes.loc
        /\ (pc = "term_ret" /\ pc' = "dir_args") => pos > dirTok.loc + Len(dirArgs) + 1]_vars

C5_Witness ==
  /\ ParseReturned
  /\ Len(produced) >= 2
  /\ \E k \in 1..Len(errors) : errors[k].msg = "Msg_expected_end_of_statement"

SortedByLocation(lines) ==
  \A i, j \in 1..Len(lines) : i < j => lines[i][1] <= lines[j][1]

\* the last n lines of standard output
LastLines(n) == SubSeq(stdout, Len(stdout) - n + 1, Len(stdout))

\* C6: the process exit status is 0 exactly when the compile succeeded (no
\* fatal diagnostic); whenever a fatal diagnostic is present the status is
\* non-zero and the sorted diagnostic text is written to standard output.
C6_ExitStatus ==
  pc = "done" =>
    /\ exitStatus = 0 <=> compiled
    /\ exitStatus = 0 <=> (argc = 2 /\ fileOpen /\ ~HasFatalErrors(errors))
    /\ HasFatalErrors(errors) =>
         /\ exitStatus # 0
         /\ Len(stdout) >= Len(errors)
         /\ LastLines(Len(errors)) = WriteOutput(errors)
         /\ SortedByLocation(LastLines(Len(errors)))

C6_Witness ==
  /\ pc = "done"
  /\ exitStatus = 1
  /\ Len(errors) >= 2
  /\ LastLines(2)[1][1] < LastLines(2)[2][1]
  /\ LastLines(2)[2][3] = "Msg_expected_end_of_statement"

\* C7: for every source input whose diagnostic list holds no fatal entry
\* (sources with no statements included), the compile produces a non-empty
\* bytecode chunk as its output.
C7_ChunkProduced ==
  (pc = "done" /\ argc = 2 /\ fileOpen /\ ~HasFatalErrors(errors)) =>
    (out # NoChunk /\ Len(out) > 0)

SingleIdentifierSpan == Len(itoks) = 1 /\ itoks[1].cls = "TK_IDENT"

\* C8: resolving an interpolation span that holds a single identifier: when
\* the name is bound, parseInterpolation returns exactly the bound expression
\* and appends no diagnostic; when it is not bound, it appends exactly one
\* undeclared-identifier diagnostic and returns no value.
C8_SingleIdentifier ==
  [][/\ (pc = "term" /\ Peek(tokens, pos).cls = "TK_INTERPOLATION") =>
          (pc' = "interp" /\ errors' = errors)
     /\ (pc = "interp" /\ SingleIdentifierSpan) =>
          IF ipos = 1
          THEN IF itoks[1].val \in DOMAIN globals
               THEN /\ pc' = "term_ret"
                    /\ termRes' = globals[itoks[1].val]
                    /\ errors' = errors
               ELSE /\ pc' = "interp"
                    /\ termRes' = NULL
                    /\ errors' = Append(errors,
                         CompilerError(LEVEL_ERROR, "Msg_undeclared_identifier",
                                       1, itoks[1].val))
          ELSE /\ pc' = "term_ret"
               /\ termRes' = NULL
               /\ errors' = errors]_vars

C8_Witness ==
  /\ pc = "term_ret"
  /\ SingleIdentifierSpan
  /\ termRes = AstLabel(itoks[1].val, termRes.loc)
  /\ errors = <<>>

InInterpolation ==
  pc = "interp" \/ (pc = "term" /\ Peek(tokens, pos).cls = "TK_INTERPOLATION")

\* C9: resolving an interpolation never mutates the enclosing unit's symbol
\* table: the bindings of the current unit after parseInterpolation are
\* those before the call.
C9_GlobalsUntouched == [][InInterpolation => globals' = globals]_vars

C9_Witness ==
  /\ pc = "term_ret"
  /\ Len(itoks) = 2
  /\ ipos = 3
  /\ Undeclared("b")
  /\ termRes # NULL
  /\ globals # NoGlobals

\* the label declarations parsed so far, in the order they were parsed
DeclsSoFar ==
  SelectSeq(produced \o <<stmtRes>>, LAMBDA st : st.kind = "label_decl")

LastDecl(n) ==
  LET idx == {i \in 1..Len(DeclsSoFar) : DeclsSoFar[i].name = n} IN
    DeclsSoFar[CHOOSE i \in idx : \A k \in idx : k <= i]

\* C10: after any sequence of label declarations parsed in one unit, each
\* declared name is bound to exactly one label expression, the one created
\* by the last declaration of that name parsed so far; a re-declaration
\* overwrites the earlier binding and appends no diagnostic.
C10_LastWriterWins ==
  /\ [](/\ DOMAIN globals = {DeclsSoFar[i].name : i \in 1..Len(DeclsSoFar)}
        /\ \A n \in DOMAIN globals : globals[n] = LastDecl(n).sub[1])
  /\ [][(pc = "stmt" /\ Peek(tokens, pos).cls = "TK_LABEL") => errors' = errors]_vars

C10_Witness ==
  /\ Len(DeclsSoFar) >= 2
  /\ DeclsSoFar[1].name = DeclsSoFar[2].name
  /\ globals[DeclsSoFar[1].name] = DeclsSoFar[2].sub[1]
  /\ globals[DeclsSoFar[1].name] # DeclsSoFar[1].sub[1]

\* the diagnostics parseTerm gives for an operand that is not there
MissingOperandMsgs == {"Msg_unexpected_eof", "Msg_unexpected_eol"}

OperandMissing(i) == ~HasNext(tokens, i) \/ tokens[i].cls = "TK_NEWLINE"

\* the cmp in progress is bare: no operand follows the command token
BareCmp == cmdTok.val = "cmp" /\ OperandMissing(cmdTok.loc + 1)

\* the diagnostics for missing operands given since the command token
OperandDiagnostics ==
  {k \in 1..Len(errors) :
     errors[k].msg \in MissingOperandMsgs /\ errors[k].loc >= cmdTok.loc}

\* C11: parsing a cmp statement that has no operand expressions appends one
\* diagnostic for each missing operand, two for a bare cmp, produces no
\* compare statement, and no chunk is emitted.
C11_CmpOperandDiagnostics ==
  /\ (pc = "stmt_end" /\ BareCmp) =>
       /\ stmtRes = NULL
       /\ Cardinality(OperandDiagnostics) = 2
  /\ (pc = "done" /\ \E k \in 1..Len(errors) : errors[k].msg \in MissingOperandMsgs) =>
       (chunk = NoChunk /\ out = NoChunk)

\* a slot number in decimal
Decimal(n) ==
  CASE n = 0 -> "0" [] n = 1 -> "1" [] n = 2 -> "2" [] n = 3 -> "3"
    [] n = INT_MAX -> "2147483647"
    [] OTHER -> "?"

DataLocationClass(cls) ==
  IF cls = "TK_REG" THEN RegisterDataStore ELSE LocalDataStore

\* C12: for every index n, a register token with index n and a local token
\* with index n parse to data-location nodes whose slot numbers are both n
\* and whose storage classes are register and local, distinct from each
\* other and from none and static.
C12_DataLocations ==
  [][(pc = "term" /\ Peek(tokens, pos).cls \in {"TK_REG", "TK_LOCAL"}) =>
       /\ termRes'.kind = "data_location"
       /\ Decimal(termRes'.num) = Peek(tokens, pos).val
       /\ termRes'.body = <<DataLocationClass(Peek(tokens, pos).cls)>>
       /\ RegisterDataStore # LocalDataStore
       /\ {RegisterDataStore, LocalDataStore} \cap {NullDataStore, StaticDataStore} = {}]_vars

\* the expressions of the AST sequence
Expressions == UNION { {VisitedBy(ast[i])[k] : k \in 1..Len(VisitedBy(ast[i]))} : i \in 1..Len(ast) }

\* C13: Object Locations are write-once: once emission has assigned a slot
\* and a storage class to an expression node, no later emission step changes
\* it; before the assignment the location is the unset, null-store value.
C13_WriteOnce ==
  /\ [][\A e \in DOMAIN objLoc : e \in DOMAIN objLoc' /\ objLoc'[e] = objLoc[e]]_vars
  /\ [](\A e \in DOMAIN objLoc : objLoc[e].store # NullDataStore)
  /\ [](\A e \in Expressions :
          (pc # "build" /\ ~compiled) => GetObjLoc(objLoc, e).store = NullDataStore)
  /\ [](pc = "done" /\ compiled => \A e \in Expressions : e \in DOMAIN objLoc)

\* a label that its declaration and a later jump both visited
C13_Witness ==
  /\ pc = "done"
  /\ \E i, j \in 1..Len(ast) :
       /\ i < j
       /\ ast[i].kind = "label_decl"
       /\ ast[j].kind = "jmp"
       /\ ast[j].sub[1] = ast[i].sub[1]
       /\ ast[i].sub[1] \in DOMAIN objLoc
       /\ dataStorage = 1

\* the token classes that start a term rule
TermClasses ==
  {"TK_IDENT", "TK_INTEGER", "TK_STRING", "TK_INTERPOLATION", "TK_REG", "TK_LOCAL"}

\* parseTerm is entered on a token that starts no term rule
UnrecognisedTerm ==
  pc = "term" /\ HasNext(tokens, pos) /\ Peek(tokens, pos).cls \notin TermClasses

\* C14: whenever parseTerm is called with a leading token whose class starts
\* no term rule (open parenthesis, open bracket, float, brace, newline, ...),
\* it appends a diagnostic, unexpected-end-of-line for a newline and
\* unexpected-token with the token text otherwise, and returns no expression.
C14_UnrecognisedTermDiagnosed ==
  [][UnrecognisedTerm =>
       /\ pc' = "term_ret"
       /\ termRes' = NULL
       /\ errors' = Append(errors,
            IF Peek(tokens, pos).cls = "TK_NEWLINE"
            THEN CompilerError(LEVEL_ERROR, "Msg_unexpected_eol", pos, "")
            ELSE CompilerError(LEVEL_ERROR, "Msg_unexpected_token", pos,
                               Peek(tokens, pos).val))]_vars

\* C15: whenever parseTerm returns no expression because the leading token is
\* not a recognised term, the cursor has advanced by exactly one token: the
\* offending token is discarded, no more and no less.
C15_OneTokenDiscarded ==
  [][UnrecognisedTerm => (pc' = "term_ret" /\ termRes' = NULL /\ pos' = pos + 1)]_vars

\* expectEndOfStmt is called: parseStatement has a statement and a next token
EndOfStmtCalled == pc = "stmt_end" /\ stmtRes # NULL /\ HasNext(tokens, pos)

\* the position immediately after the first newline at or after p, the end
\* of the stream if there is none
AfterFirstNewline(p) ==
  LET nls == {k \in p..Len(tokens) : tokens[k].cls = "TK_NEWLINE"} IN
    IF nls = {} THEN Len(tokens) + 1
    ELSE (CHOOSE k \in nls : \A q \in nls : k <= q) + 1

\* C16: when expectEndOfStmt is called and the next token is not a newline,
\* it appends exactly one expected-end-of-statement diagnostic, returns false
\* and leaves the cursor immediately after the first newline at or after the
\* entry position, or at the end of the stream if no newline follows; when
\* the next token is a newline it consumes exactly that token, appends
\* nothing and returns true.
C16_EndOfStmt ==
  [][/\ (EndOfStmtCalled /\ Peek(tokens, pos).cls = "TK_NEWLINE") =>
          /\ pc' = "stmt_ret"
          /\ pos' = pos + 1
          /\ errors' = errors
          /\ eosRes' = TRUE
     /\ (EndOfStmtCalled /\ Peek(tokens, pos).cls # "TK_NEWLINE") =>
          /\ pc' = "eos_skip"
          /\ pos' = pos
          /\ errors' = Append(errors,
               CompilerError(LEVEL_ERROR, "Msg_expected_end_of_statement", pos, ""))
     /\ pc = "eos_skip" =>
          /\ errors' = errors
          /\ pc' \in {"eos_skip", "stmt_ret"}
          /\ pc' = "stmt_ret" =>
               /\ eosRes' = FALSE
               /\ pos' = AfterFirstNewline(errors[Len(errors)].loc)]_vars

C16_Witness ==
  /\ pc = "stmt_ret"
  /\ eosRes = FALSE
  /\ errors # <<>>
  /\ errors[Len(errors)].msg = "Msg_expected_end_of_statement"
  /\ pos - errors[Len(errors)].loc >= 3
  /\ tokens[pos - 1].cls = "TK_NEWLINE"

\* parseInterpolation has appended a diagnostic for a token of the span it is
\* walking: the token before its cursor
DiagnosedInSpan ==
  /\ pc = "interp"
  /\ ipos > 1
  /\ errors # <<>>
  /\ errors[Len(errors)].loc = ipos - 1
  /\ errors[Len(errors)].msg \in {"Msg_undeclared_identifier", "Msg_expected_identifier"}

\* C17: whenever parseInterpolation appends a diagnostic for some token of
\* the span, it returns no value: it never both reports a diagnostic and
\* returns a bound expression taken from a later token of the same span.
C17_DiagnosticMeansNoValue ==
  [][(DiagnosedInSpan /\ pc' = "term_ret") => termRes' = NULL]_vars

\* parseCommand is entered on an identifier that is no mnemonic
PlainIdentifierCommand ==
  /\ pc = "stmt"
  /\ HasNext(tokens, pos)
  /\ Peek(tokens, pos).cls = "TK_IDENT"
  /\ Peek(tokens, pos).val \notin JumpMnemonics \cup {"cmp"}

\* C18: when parseCommand is entered on an identifier whose text is none of
\* jmp, je, jne, jg, jge, cmp, the token is un-consumed by one rewind and
\* re-parsed as an identifier: the cursor advances by exactly one token, the
\* result is an identifier node with that token's text and location, and no
\* diagnostic is appended.
C18_PlainIdentifier ==
  [][PlainIdentifierCommand =>
       /\ pc' = "stmt_end"
       /\ pos' = pos + 1
       /\ stmtRes' = AstIdentifier(Peek(tokens, pos).val, pos)
       /\ errors' = errors]_vars

C18_Witness ==
  /\ pc = "stmt_end"
  /\ stmtRes.kind = "identifier"
  /\ stmtRes.name = "a"
  /\ tokens[stmtRes.loc] = Tok("TK_IDENT", "a")
  /\ pos = stmtRes.loc + 1
  /\ cmdTok = NoTok

\* the call of expect made by a step
CallFails(cls) == ~HasNext(tokens, pos) \/ tokens[pos].cls # cls

\* C19: every expect(class) call whose next token is absent or of a
\* different class appends exactly one error-level diagnostic
\* (expected-identifier when the class is identifier, otherwise
\* expected-token carrying the class name), returns the empty token and
\* leaves the cursor unchanged; a matching call appends nothing and, with
\* read set, advances the cursor by exactly one.
C19_Expect ==
  [][pc = "expect" =>
       IF CallFails(expCall'.cls)
       THEN /\ Len(errors') = Len(errors) + 1
            /\ errors'[Len(errors')].level = LEVEL_ERROR
            /\ errors'[Len(errors')].msg =
                 IF expCall'.cls = "TK_IDENT" THEN "Msg_expected_identifier"
                 ELSE "Msg_expected_token"
            /\ expCall'.cls # "TK_IDENT" => errors'[Len(errors')].str = expCall'.cls
            /\ SubSeq(errors', 1, Len(errors)) = errors
            /\ expCall'.tok = EMPTY
            /\ pos' = pos
       ELSE /\ errors' = errors
            /\ expCall'.tok = tokens[pos]
            /\ pos' = IF expCall'.read THEN pos + 1 ELSE pos]_vars

C19_Witness ==
  /\ pc = "expect"
  /\ expCall.cls = "TK_LABEL"
  /\ expCall.tok = EMPTY
  /\ HasNext(tokens, pos)
  /\ tokens[pos].cls = "TK_IDENT"
  /\ pos > 1
  /\ errors = <<CompilerError(LEVEL_ERROR, "Msg_expected_token", pos, "TK_LABEL")>>

\* the brace nesting depth after token k of a body opened at b
RECURSIVE Depth(_, _)
Depth(b, k) ==
  IF k <= b THEN 1
  ELSE Depth(b, k - 1)
         + (IF tokens[k].cls = "TK_OPEN_BRACE" THEN 1 ELSE 0)
         - (IF tokens[k].cls = "TK_CLOSE_BRACE" THEN 1 ELSE 0)

Closes(b) == {c \in (b + 1)..Len(tokens) : Depth(b, c) = 0}

\* the closing brace that matches the opening brace at b
MatchingClose(b) == CHOOSE c \in Closes(b) : \A q \in Closes(b) : c <= q

\* the text of the tokens from i to j
Texts(i, j) == [k \in 1..(j - i + 1) |-> tokens[i + k - 1].val]

\* the opening brace of the body parseDirective is reading
BodyOpenedAt == pos - Len(dirBody) - 1

\* C20: for a directive followed by a brace-delimited body, parseDirective
\* stores as the body the text of exactly the tokens strictly between the
\* opening brace and its matching closing brace (by nesting depth, nested
\* braces included), in order and unparsed, and leaves the cursor
\* immediately after that closing brace; no token of the body is parsed as
\* an argument or a statement.
C20_DirectiveBody ==
  [][pc = "dir_body" =>
       /\ UNCHANGED <<errors, globals, produced, hoisted, otherStmts>>
       /\ pc' \in {"dir_body", "stmt_end"}
       /\ pc' = "dir_body" => dirArgs' = dirArgs
       /\ pc' = "stmt_end" =>
            /\ tokens[BodyOpenedAt].cls = "TK_OPEN_BRACE"
            /\ stmtRes'.kind = "directive"
            /\ stmtRes'.sub = dirArgs
            /\ Closes(BodyOpenedAt) # {} =>
                 /\ stmtRes'.body =
                      Texts(BodyOpenedAt + 1, MatchingClose(BodyOpenedAt) - 1)
                 /\ pos' = MatchingClose(BodyOpenedAt) + 1]_vars

\* a body with a nested pair of braces, and a token after it
C20_Witness ==
  /\ pc = "stmt_end"
  /\ stmtRes.kind = "directive"
  /\ stmtRes.body = <<"{", "}">>
  /\ pos = stmtRes.loc + 5
  /\ HasNext(tokens, pos)

\* C21: no silent truncation: whenever parse() returns while the token
\* stream still has unconsumed tokens, the diagnostic list holds at least one
\* error-level diagnostic; every compile that reaches emission has consumed
\* every token of the source.
C21_NoSilentTruncation ==
  /\ (ParseReturned /\ HasNext(tokens, pos)) => HasFatalErrors(errors)
  /\ compiled => ~HasNext(tokens, pos)

=============================================================================
